---- MODULE Spec2Model ----
(***************************************************************************)
(* Verification model of the TSL2561 ambient-light sensor driver           *)
(* (Ductsoup_Python_TSL2561.py): power/timing controller, raw read,        *)
(* auto-gain read, HDR search and the lux conversion.                      *)
(***************************************************************************)
EXTENDS Integers, Sequences, FiniteSets, TLC

\* Python's None, for the optional integer fields and arguments.
None == -99

(***************************************************************************)
(* Register map and command values                                         *)
(***************************************************************************)
_REGISTER_CONTROL == 0
_REGISTER_TIMING == 1
_REGISTER_THRESHHOLD_MIN == 2
_REGISTER_THRESHHOLD_MAX == 4
_REGISTER_INTERRUPT == 6
_REGISTER_ID == 10
_REGISTER_CHANNEL0 == 12
_REGISTER_CHANNEL1 == 14

_CONTROL_POWERON == 3
_CONTROL_POWEROFF == 0

_INTERRUPT_NONE == 0
_INTERRUPT_LEVEL == 16

TSL2561_LOWPOWER == 0
TSL2561_STANDARD == 1

\* _INTEGRATION_TIME[t] = (hex, wait, clip, min, max, scale); Python's
\* index i of the tuple is position i + 1 here.
_INTEGRATION_TIME ==
  [t \in {13, 101, 402, 0} |->
     CASE t = 13  -> <<0, 15, 4900, 100, 4850, 29975>>
       [] t = 101 -> <<1, 120, 37000, 200, 36000, 4071>>
       [] t = 402 -> <<2, 450, 65000, 500, 63000, 1024>>
       [] t = 0   -> <<3, 0, 0, 0, 0, 0>>]

\* The tier table with a seventh tier after a bounded tier 5.
_HDR_seven ==
  [i \in 0..6 |->
     CASE i = 0 -> [gain |-> 16, time |-> 402, min |-> None, max |-> 62258]
       [] i = 1 -> [gain |-> 16, time |-> 101, min |-> 1859, max |-> 35318]
       [] i = 2 -> [gain |-> 1,  time |-> 402, min |-> 3277, max |-> 62258]
       [] i = 3 -> [gain |-> 16, time |-> 13,  min |-> 252,  max |-> 4876]
       [] i = 4 -> [gain |-> 1,  time |-> 101, min |-> 1859, max |-> 35318]
       [] i = 5 -> [gain |-> 1,  time |-> 13,  min |-> 252,  max |-> 4876]
       [] i = 6 -> [gain |-> 1,  time |-> 13,  min |-> 4876,  max |-> None]]

\* Device states enumerated from most to least sensitive.
_HDR ==
  [i \in 0..5 |->
     CASE i = 0 -> [gain |-> 16, time |-> 402, min |-> None, max |-> 62258]
       [] i = 1 -> [gain |-> 16, time |-> 101, min |-> 1859, max |-> 35318]
       [] i = 2 -> [gain |-> 1,  time |-> 402, min |-> 3277, max |-> 62258]
       [] i = 3 -> [gain |-> 16, time |-> 13,  min |-> 252,  max |-> 4876]
       [] i = 4 -> [gain |-> 1,  time |-> 101, min |-> 1859, max |-> 35318]
       [] i = 5 -> [gain |-> 1,  time |-> 13,  min |-> 252,  max |-> None]]

\* TSL2561._LUX_SCALE: (K, B, M) in ascending K.
_LUX_SCALE ==
  << <<64, 498, 446>>,
     <<128, 532, 721>>,
     <<192, 575, 891>>,
     <<256, 624, 1022>>,
     <<312, 367, 508>>,
     <<410, 210, 251>>,
     <<666, 24, 18>> >>

(***************************************************************************)
(* Exact arithmetic.  The driver computes lux with Python's true division  *)
(* (from __future__ import division); the values are modelled as exact     *)
(* rationals over arbitrary-precision naturals (little-endian digit        *)
(* sequences), since the products exceed 32 bits.  On 16-bit counts the    *)
(* doubles are exact where it matters: scale, channel0, channel1 and the   *)
(* final sum are dyadic with fewer than 53 significant bits, and the one   *)
(* rounded quotient (ir * 1024 / vnir) lies at least 1/65535 away from any *)
(* integer it is compared with unless it equals it.                        *)
(***************************************************************************)
BASE == 100 * 100

RECURSIVE N(_)
N(i) == IF i = 0 THEN <<>> ELSE <<i % BASE>> \o N(i \div BASE)

RECURSIVE BAddC(_, _, _)
BAddC(a, b, c) ==
  IF a = <<>> /\ b = <<>>
  THEN IF c = 0 THEN <<>> ELSE <<c>>
  ELSE LET x == (IF a = <<>> THEN 0 ELSE Head(a)) + (IF b = <<>> THEN 0 ELSE Head(b)) + c
           ta == IF a = <<>> THEN <<>> ELSE Tail(a)
           tb == IF b = <<>> THEN <<>> ELSE Tail(b)
       IN  <<x % BASE>> \o BAddC(ta, tb, x \div BASE)

BAdd(a, b) == BAddC(a, b, 0)

RECURSIVE BNorm(_)
BNorm(a) ==
  IF a = <<>> THEN <<>>
  ELSE IF a[Len(a)] = 0 THEN BNorm(SubSeq(a, 1, Len(a) - 1)) ELSE a

\* a - b for a >= b.
RECURSIVE BSubC(_, _, _)
BSubC(a, b, c) ==
  IF a = <<>> THEN <<>>
  ELSE LET y == (IF b = <<>> THEN 0 ELSE Head(b)) + c
           tb == IF b = <<>> THEN <<>> ELSE Tail(b)
       IN  IF Head(a) >= y
           THEN <<Head(a) - y>> \o BSubC(Tail(a), tb, 0)
           ELSE <<Head(a) + BASE - y>> \o BSubC(Tail(a), tb, 1)

BSub(a, b) == BNorm(BSubC(a, b, 0))

RECURSIVE BMulSmall(_, _, _)
BMulSmall(a, k, c) ==
  IF a = <<>>
  THEN IF c = 0 THEN <<>> ELSE <<c>>
  ELSE LET x == Head(a) * k + c
       IN  <<x % BASE>> \o BMulSmall(Tail(a), k, x \div BASE)

RECURSIVE BMul(_, _)
BMul(a, b) ==
  IF a = <<>> \/ b = <<>> THEN <<>>
  ELSE LET rest == BMul(a, Tail(b))
           shifted == IF rest = <<>> THEN <<>> ELSE <<0>> \o rest
       IN  BNorm(BAdd(BMulSmall(a, Head(b), 0), shifted))

\* -1, 0, 1 as a < b, a = b, a > b (normalised operands).
RECURSIVE BCmpEq(_, _, _)
BCmpEq(a, b, i) ==
  IF i = 0 THEN 0
  ELSE IF a[i] < b[i] THEN -1
  ELSE IF a[i] > b[i] THEN 1
  ELSE BCmpEq(a, b, i - 1)

BCmp(a, b) ==
  IF Len(a) < Len(b) THEN -1
  ELSE IF Len(a) > Len(b) THEN 1
  ELSE BCmpEq(a, b, Len(a))

\* Rationals: s * n / d with s in {1, -1}, d > 0.
R(i) == [s |-> IF i < 0 THEN -1 ELSE 1, n |-> N(IF i < 0 THEN -i ELSE i), d |-> N(1)]

RMul(x, y) == [s |-> x.s * y.s, n |-> BMul(x.n, y.n), d |-> BMul(x.d, y.d)]

\* x / y for y # 0.
RDiv(x, y) == [s |-> x.s * y.s, n |-> BMul(x.n, y.d), d |-> BMul(x.d, y.n)]

RAdd(x, y) ==
  LET a == BMul(x.n, y.d)
      b == BMul(y.n, x.d)
      d == BMul(x.d, y.d)
  IN  IF x.s = y.s THEN [s |-> x.s, n |-> BAdd(a, b), d |-> d]
      ELSE IF BCmp(a, b) >= 0 THEN [s |-> x.s, n |-> BSub(a, b), d |-> d]
      ELSE [s |-> y.s, n |-> BSub(b, a), d |-> d]

RNeg(x) == [x EXCEPT !.s = -x.s]

RSub(x, y) == RAdd(x, RNeg(y))

RIsZero(x) == x.n = <<>>

\* x <= y
RLe(x, y) ==
  LET z == RSub(y, x)
  IN  RIsZero(z) \/ z.s = 1

REq(x, y) == RIsZero(RSub(x, y))

RMax(x, y) == IF RLe(x, y) THEN y ELSE x

(***************************************************************************)
(* Lux conversion                                                          *)
(***************************************************************************)
\* The for/else of _lux: the first (k, b, m) with ratio <= k, else b = m = 0.
RECURSIVE LuxCoefficients(_, _)
LuxCoefficients(ratio, i) ==
  IF i > Len(_LUX_SCALE) THEN <<0, 0>>
  ELSE IF RLe(ratio, R(_LUX_SCALE[i][1]))
       THEN <<_LUX_SCALE[i][2], _LUX_SCALE[i][3]>>
       ELSE LuxCoefficients(ratio, i + 1)

\* _lux with ">= clip" as the saturation test.
_lux_clip_inclusive(gain, integration_time, vnir, ir) ==
  IF integration_time = 0 THEN [kind |-> "ValueError"]
  ELSE IF vnir >= _INTEGRATION_TIME[integration_time][3]
          \/ ir >= _INTEGRATION_TIME[integration_time][3]
       THEN [kind |-> "None"]
       ELSE [kind |-> "lux", value |-> R(0)]

\* _lux with the ratio test "ratio < k" instead of "ratio <= k".
RECURSIVE LuxCoefficientsStrict(_, _)
LuxCoefficientsStrict(ratio, i) ==
  IF i > Len(_LUX_SCALE) THEN <<0, 0>>
  ELSE IF ~RLe(R(_LUX_SCALE[i][1]), ratio)
       THEN <<_LUX_SCALE[i][2], _LUX_SCALE[i][3]>>
       ELSE LuxCoefficientsStrict(ratio, i + 1)

_lux_strict_ratio(gain, integration_time, vnir, ir) ==
  IF integration_time = 0 THEN [kind |-> "ValueError"]
  ELSE IF vnir > _INTEGRATION_TIME[integration_time][3]
          \/ ir > _INTEGRATION_TIME[integration_time][3]
       THEN [kind |-> "None"]
       ELSE LET scale == RDiv(R(16 * _INTEGRATION_TIME[integration_time][6]), R(gain))
                channel0 == RDiv(RMul(R(vnir), scale), R(1024))
                channel1 == RDiv(RMul(R(ir), scale), R(1024))
                ratio == RDiv(RAdd(IF ~RIsZero(channel0)
                                   THEN RDiv(RMul(channel1, R(1024)), channel0)
                                   ELSE R(0),
                                   R(1)),
                              R(2))
                bm == LuxCoefficientsStrict(ratio, 1)
            IN  [kind |-> "lux",
                 value |-> RDiv(RAdd(RMax(R(0), RSub(RMul(channel0, R(bm[1])),
                                                     RMul(channel1, R(bm[2])))),
                                     R(8192)),
                                R(16384))]

\* scale, channel0, channel1 and ratio of _lux (lines 124-127).
LuxScale(gain, integration_time) ==
  RDiv(R(16 * _INTEGRATION_TIME[integration_time][6]), R(gain))

LuxChannel(count, scale) == RDiv(RMul(R(count), scale), R(1024))

LuxRatio(channel0, channel1) ==
  RDiv(RAdd(IF ~RIsZero(channel0)
            THEN RDiv(RMul(channel1, R(1024)), channel0)
            ELSE R(0),
            R(1)),
       R(2))

\* TSL2561._lux(channels) at the driver's gain and integration time:
\* [kind |-> "ValueError"], [kind |-> "None"] (saturated) or a lux value.
_lux(gain, integration_time, vnir, ir) ==
  IF integration_time = 0 THEN [kind |-> "ValueError"]
  ELSE IF vnir > _INTEGRATION_TIME[integration_time][3]
          \/ ir > _INTEGRATION_TIME[integration_time][3]
       THEN [kind |-> "None"]
       ELSE LET scale == LuxScale(gain, integration_time)
                channel0 == LuxChannel(vnir, scale)
                channel1 == LuxChannel(ir, scale)
                ratio == LuxRatio(channel0, channel1)
                bm == LuxCoefficients(ratio, 1)
            IN  [kind |-> "lux",
                 value |-> RDiv(RAdd(RMax(R(0), RSub(RMul(channel0, R(bm[1])),
                                                     RMul(channel1, R(bm[2])))),
                                     R(8192)),
                                R(16384))]

(***************************************************************************)
(* State                                                                   *)
(***************************************************************************)
VARIABLES
  pc,                 \* "new" (not constructed), "idle", "hdr" (inside the
                      \* while loop of read(hdr=True)), "failed" (__init__ raised)
  control,            \* device: last value written to the control register
  timing,             \* device: timing register
  threshold_min,      \* device: low threshold register
  threshold_max,      \* device: high threshold register
  interrupt,          \* device: interrupt control register
  id,                 \* device: ID register
  _active,            \* driver: self._active
  _gain,              \* driver: self._gain
  _integration_time,  \* driver: self._integration_time
  _hdr,               \* driver: self._hdr (None or 0..5)
  last_vnir,          \* driver: self.last_vnir
  last_ir,            \* driver: self.last_ir
  call,               \* the call in progress or last completed: [op, args]
  log,                \* bus operations and sleeps of the latest step
  ret,                \* what the last completed call returned or raised
  scene,              \* history: 0, or the constant scene of this HDR call
  hdr_start,          \* history: _hdr when the HDR call was entered
  reads,              \* history: raw reads of this HDR call (saturating)
  moves,              \* history: tier index changes of this HDR call
  in0,                \* history: every raw read of this HDR call within tier 0
  tick,               \* history: parity of the passes of this HDR call's loop
  thread,             \* concurrent callers: each one's position and locals
  lock                \* concurrent callers: -1 no lock used, 0 free, i held by i

device == <<control, timing, threshold_min, threshold_max, interrupt, id>>
driver == <<_active, _gain, _integration_time, _hdr, last_vnir, last_ir>>
history == <<scene, hdr_start, reads, moves, in0, tick>>
callers == <<thread, lock>>
vars == <<pc, device, driver, call, log, ret, history, callers>>

\* No concurrent callers: every call is made by the one caller.
NoThreads ==
  [i \in {1, 2} |-> [pc |-> "done", arg |-> None, was_active |-> FALSE, value |-> 0]]

(***************************************************************************)
(* Bounds and input sets                                                   *)
(***************************************************************************)
\* The raw-read counter of an HDR call saturates here.
MaxReads == 3

\* Control register contents left by whoever used the device before.
ControlAtStart == {_CONTROL_POWEROFF, _CONTROL_POWERON}

\* Timing register contents left by whoever used the device before.
TimingAtStart == {2, 27}

\* ID register bytes: TSL2561T (0x50), TSL2560T (0x40), TSL2560CS rev 10.
IdBytes == {80, 64, 10}

PowerModes == {TSL2561_LOWPOWER, TSL2561_STANDARD, 2}

\* Raw (vnir, ir) pairs the channel registers may return.
Readings ==
  { <<0, 0>>, <<90, 50>>, <<1800, 2430>>, <<3700, 5000>>,
    <<40000, 20000>>, <<65535, 60000>> }

\* Arguments of threshold(cycles, min_value, max_value).
CyclesArgs == {None}
MinValueArgs == {None, 0}
MaxValueArgs == {None}

GainArgs == {1, 16, 4}
IntegrationTimeArgs == {0, 13, 101, 402, 100}

\* A scene whose counts are hi at the tiers below k and lo from tier k on.
StepScene(hi, lo, k) == [t \in 0..5 |-> IF t < k THEN hi ELSE lo]

\* Constant scenes: the raw pair read at each HDR tier.
Scenes ==
  << StepScene(<<0, 0>>, <<0, 0>>, 0),
     StepScene(<<3700, 5000>>, <<1800, 2430>>, 4),
     StepScene(<<65535, 60000>>, <<65535, 60000>>, 0),
     StepScene(<<40000, 20000>>, <<3700, 5000>>, 2),
     StepScene(<<90, 50>>, <<90, 50>>, 0) >>

\* Counts do not grow as the tier index grows (as sensitivity falls).
NonIncreasing(s) ==
  \A t \in 0..4 : s[t + 1][1] <= s[t][1] /\ s[t + 1][2] <= s[t][2]

\* _lux over the raw pairs the model's device returns, evaluated once.
LuxInputs == {1, 16} \X {13, 101, 402} \X Readings

LuxTable == {<<a, _lux(a[1], a[2], a[3][1], a[3][2])>> : a \in LuxInputs}

Lux(gain, integration_time, vnir, ir) ==
  LET a == <<gain, integration_time, <<vnir, ir>>>>
  IN  IF a \in LuxInputs
      THEN (CHOOSE e \in LuxTable : e[1] = a)[2]
      ELSE _lux(gain, integration_time, vnir, ir)

Max(a, b) == IF a >= b THEN a ELSE b
Min(a, b) == IF a <= b THEN a ELSE b

(***************************************************************************)
(* The driver object and the device behind it, as one record, so that the  *)
(* methods compose as the code calls them.                                 *)
(***************************************************************************)
Self ==
  [ _active |-> _active, _gain |-> _gain,
    _integration_time |-> _integration_time, _hdr |-> _hdr,
    last_vnir |-> last_vnir, last_ir |-> last_ir,
    control |-> control, timing |-> timing,
    threshold_min |-> threshold_min, threshold_max |-> threshold_max,
    interrupt |-> interrupt, id |-> id,
    log |-> <<>>, exc |-> "" ]

\* time.sleep(ms / 1000)
sleep(m, ms) == [m EXCEPT !.log = Append(@, <<"sleep", ms>>)]

\* _register8(register): a byte read; the value is RegValue(m, register).
RegValue(m, register) ==
  CASE register = _REGISTER_CONTROL -> m.control
    [] register = _REGISTER_TIMING -> m.timing
    [] register = _REGISTER_THRESHHOLD_MIN -> m.threshold_min
    [] register = _REGISTER_THRESHHOLD_MAX -> m.threshold_max
    [] register = _REGISTER_INTERRUPT -> m.interrupt
    [] register = _REGISTER_ID -> m.id

_register8_read(m, register) ==
  [m EXCEPT !.log = Append(@, <<"r8", register, RegValue(m, register)>>)]

\* _register8(register, value): a byte write.
_register8(m, register, value) ==
  LET w == [m EXCEPT !.log = Append(@, <<"w8", register, value>>)]
  IN  CASE register = _REGISTER_CONTROL -> [w EXCEPT !.control = value]
        [] register = _REGISTER_TIMING -> [w EXCEPT !.timing = value]
        [] register = _REGISTER_INTERRUPT -> [w EXCEPT !.interrupt = value]

\* _register16(register): a word read returning value.
_register16_read(m, register, value) ==
  [m EXCEPT !.log = Append(@, <<"r16", register, value>>)]

\* _register16(register, value): a word write.
_register16(m, register, value) ==
  LET w == [m EXCEPT !.log = Append(@, <<"w16", register, value>>)]
  IN  CASE register = _REGISTER_THRESHHOLD_MIN -> [w EXCEPT !.threshold_min = value]
        [] register = _REGISTER_THRESHHOLD_MAX -> [w EXCEPT !.threshold_max = value]

\* x & 0x03, x & 0x10 and x & 0x0f of a byte.
And03(x) == x % 4
And10(x) == ((x \div 16) % 2) * 16
And0f(x) == x % 16

\* active(value), value a boolean: set the power state.
active(m, value) ==
  IF value # m._active
  THEN _register8([m EXCEPT !._active = value], _REGISTER_CONTROL,
                  IF value THEN _CONTROL_POWERON ELSE _CONTROL_POWEROFF)
  ELSE m

GainBits(gain) == IF gain = 16 THEN 16 ELSE 0

\* The gain branch of _update_range without the power-down.
UpdateGain_live(m, was_active, gain) ==
  IF gain # None /\ gain # m._gain
  THEN LET value == And03(RegValue(m, _REGISTER_TIMING))
           b == _register8_read(m, _REGISTER_TIMING)
           c == _register8(b, _REGISTER_TIMING, value + GainBits(gain))
           d == [c EXCEPT !._gain = gain]
       IN  _register8_read(d, _REGISTER_TIMING)
  ELSE m

\* The gain branch of _update_range (lines 196-203).
UpdateGain(m, was_active, gain) ==
  IF gain # None /\ gain # m._gain
  THEN LET a == IF was_active THEN active(m, FALSE) ELSE m
           value == And03(RegValue(a, _REGISTER_TIMING))
           b == _register8_read(a, _REGISTER_TIMING)
           c == _register8(b, _REGISTER_TIMING, value + GainBits(gain))
           d == [c EXCEPT !._gain = gain]
       IN  _register8_read(d, _REGISTER_TIMING)
  ELSE m

\* The integration-time branch of _update_range (lines 204-210).
UpdateIntegrationTime(m, integration_time) ==
  IF integration_time # None /\ integration_time # m._integration_time
  THEN LET value == And10(RegValue(m, _REGISTER_TIMING))
           b == _register8_read(m, _REGISTER_TIMING)
           c == _register8(b, _REGISTER_TIMING,
                           value + _INTEGRATION_TIME[integration_time][1])
           d == _register8_read(c, _REGISTER_TIMING)
           e == sleep(d, Max(_INTEGRATION_TIME[m._integration_time][2],
                             _INTEGRATION_TIME[integration_time][2]))
       IN  [e EXCEPT !._integration_time = integration_time]
  ELSE m

\* _update_range that rewrites the timing register without reading it back.
_update_range_blind(m, gain, integration_time) ==
  LET g == IF gain # None /\ gain # m._gain
           THEN [_register8(m, _REGISTER_TIMING, GainBits(gain)) EXCEPT !._gain = gain]
           ELSE m
  IN  IF integration_time # None /\ integration_time # g._integration_time
      THEN [_register8(g, _REGISTER_TIMING, _INTEGRATION_TIME[integration_time][1])
              EXCEPT !._integration_time = integration_time]
      ELSE g

\* _update_range that rewrites the timing register on every call.
_update_range_eager(m, gain, integration_time) ==
  LET g == IF gain # None
           THEN [_register8(m, _REGISTER_TIMING,
                            And03(m.timing) + GainBits(gain)) EXCEPT !._gain = gain]
           ELSE m
  IN  IF integration_time # None
      THEN [_register8(g, _REGISTER_TIMING,
                       And10(g.timing) + _INTEGRATION_TIME[integration_time][1])
              EXCEPT !._integration_time = integration_time]
      ELSE g

\* _update_range(gain, integration_time); None for an argument not given.
_update_range(m, gain, integration_time) ==
  LET was_active == m._active
      g == UpdateGain(m, was_active, gain)
      t == UpdateIntegrationTime(g, integration_time)
  IN  active(t, was_active)

\* gain(value) that skips the argument check.
gain_unchecked(m, value) == _update_range(m, value, None)

\* gain(value), the setter.
gain(m, value) ==
  IF value \notin {1, 16}
  THEN [m EXCEPT !.exc = "ValueError"]
  ELSE _update_range(m, value, None)

\* integration_time(value), the setter.
integration_time(m, value) ==
  IF value \notin DOMAIN _INTEGRATION_TIME
  THEN [m EXCEPT !.exc = "ValueError"]
  ELSE _update_range(m, None, value)

\* _read() that leaves the device powered on.
_read_stays_on(m, vnir, ir) ==
  LET a == IF ~m._active
           THEN sleep(active(m, TRUE), _INTEGRATION_TIME[m._integration_time][2])
           ELSE m
      b == _register16_read(a, _REGISTER_CHANNEL0, vnir)
  IN  _register16_read(b, _REGISTER_CHANNEL1, ir)

\* _read(): the channel registers return vnir and ir.  (Its check that gain
\* and integration time are set never fails: __init__ sets both.)
_read(m, vnir, ir) ==
  LET was_active == m._active
      a == IF ~was_active
           THEN sleep(active(m, TRUE), _INTEGRATION_TIME[m._integration_time][2])
           ELSE m
      b == _register16_read(a, _REGISTER_CHANNEL0, vnir)
      c == _register16_read(b, _REGISTER_CHANNEL1, ir)
  IN  active(c, was_active)

\* The ID byte read as if the part number were its low four bits.
sensor_id_unshifted(m) == <<And0f(RegValue(m, _REGISTER_ID)), RegValue(m, _REGISTER_ID) \div 16>>

\* sensor_id(): (part_no, rev_no)
sensor_id(m) == <<RegValue(m, _REGISTER_ID) \div 16, And0f(RegValue(m, _REGISTER_ID))>>

\* threshold(), all arguments omitted: (cycles, min_value, max_value).
threshold_get(m) ==
  LET cycles == RegValue(m, _REGISTER_INTERRUPT)
  IN  << IF And10(cycles) = 0 THEN -1 ELSE And0f(cycles),
         RegValue(m, _REGISTER_THRESHHOLD_MIN),
         RegValue(m, _REGISTER_THRESHHOLD_MAX) >>

\* The bus reads of threshold() in get mode (lines 261-263).
threshold_reads(m) ==
  _register8_read(
    _register16_read(
      _register16_read(m, _REGISTER_THRESHHOLD_MIN, m.threshold_min),
      _REGISTER_THRESHHOLD_MAX, m.threshold_max),
    _REGISTER_INTERRUPT)

\* threshold(cycles, min_value, max_value) that writes cycles unclamped.
threshold_unclamped(m, cycles, min_value, max_value) ==
  LET was_active == m._active
      a == active(m, TRUE)
      b == IF min_value # None
           THEN _register16(a, _REGISTER_THRESHHOLD_MIN, min_value) ELSE a
      c == IF max_value # None
           THEN _register16(b, _REGISTER_THRESHHOLD_MAX, max_value) ELSE b
      d == IF cycles = None THEN c
           ELSE IF cycles = -1
           THEN _register8(c, _REGISTER_INTERRUPT, _INTERRUPT_NONE)
           ELSE _register8(c, _REGISTER_INTERRUPT,
                           (IF cycles < 0 THEN 0 - cycles ELSE cycles) + _INTERRUPT_LEVEL)
  IN  active(d, was_active)

\* threshold(cycles, min_value, max_value) with an argument given
\* (lines 269-281).
threshold(m, cycles, min_value, max_value) ==
  LET was_active == m._active
      a == active(m, TRUE)
      b == IF min_value # None
           THEN _register16(a, _REGISTER_THRESHHOLD_MIN, min_value) ELSE a
      c == IF max_value # None
           THEN _register16(b, _REGISTER_THRESHHOLD_MAX, max_value) ELSE b
      d == IF cycles = None THEN c
           ELSE IF cycles = -1
           THEN _register8(c, _REGISTER_INTERRUPT, _INTERRUPT_NONE)
           ELSE _register8(c, _REGISTER_INTERRUPT,
                           Min(15, Max(0, cycles)) + _INTERRUPT_LEVEL)
  IN  active(d, was_active)

\* interrupt(value): value is "None", "truthy" or "falsy".  The driver has
\* no attribute i2c (__init__ keeps the bus device as self._device), so the
\* clear command is never sent: evaluating self.i2c raises AttributeError.
interrupt_call(m, value) ==
  IF value \in {"truthy", "None"}
  THEN [m EXCEPT !.exc = "ValueError"]
  ELSE [m EXCEPT !.exc = "AttributeError"]

(***************************************************************************)
(* Steps                                                                   *)
(***************************************************************************)
Commit(m) ==
  /\ _active' = m._active
  /\ _gain' = m._gain
  /\ _integration_time' = m._integration_time
  /\ _hdr' = m._hdr
  /\ last_vnir' = m.last_vnir
  /\ last_ir' = m.last_ir
  /\ control' = m.control
  /\ timing' = m.timing
  /\ threshold_min' = m.threshold_min
  /\ threshold_max' = m.threshold_max
  /\ interrupt' = m.interrupt
  /\ id' = m.id
  /\ log' = m.log

NoHistory ==
  /\ scene' = 0
  /\ hdr_start' = None
  /\ reads' = 0
  /\ moves' = {}
  /\ in0' = TRUE
  /\ tick' = FALSE

\* A call made while idle runs to its return or its exception.
Return(m, op, args, result) ==
  /\ Commit(m)
  /\ pc' = "idle"
  /\ call' = [op |-> op, args |-> args]
  /\ ret' = IF m.exc # "" THEN [kind |-> m.exc] ELSE result
  /\ NoHistory
  /\ UNCHANGED callers

Init ==
  /\ pc = "new"
  /\ control \in ControlAtStart
  /\ timing \in TimingAtStart
  /\ threshold_min = 0
  /\ threshold_max = 0
  /\ interrupt = _INTERRUPT_NONE
  /\ id \in IdBytes
  /\ _active = FALSE
  /\ _gain = None
  /\ _integration_time = None
  /\ _hdr = None
  /\ last_vnir = None
  /\ last_ir = None
  /\ call = [op |-> "", args |-> <<>>]
  /\ log = <<>>
  /\ ret = [kind |-> "none"]
  /\ scene = 0
  /\ hdr_start = None
  /\ reads = 0
  /\ moves = {}
  /\ in0 = TRUE
  /\ tick = FALSE
  /\ thread = NoThreads
  /\ lock = 0

\* TSL2561(powermode): __init__.  self._active = None differs from either
\* boolean, so the first active(...) always writes the control register.
Construct ==
  /\ pc = "new"
  /\ \E powermode \in PowerModes :
       LET m0 == _register8_read(Self, _REGISTER_ID)
           part_no == sensor_id(Self)[1]
       IN  /\ call' = [op |-> "__init__", args |-> <<powermode>>]
           /\ IF part_no % 2 = 0
              THEN /\ Commit(m0)
                   /\ pc' = "failed"
                   /\ ret' = [kind |-> "RuntimeError"]
              ELSE IF powermode \notin {TSL2561_LOWPOWER, TSL2561_STANDARD}
              THEN /\ Commit(m0)
                   /\ pc' = "failed"
                   /\ ret' = [kind |-> "ValueError"]
              ELSE LET on == (powermode = TSL2561_STANDARD)
                       m1 == active([m0 EXCEPT !._active = ~on], on)
                       m2 == [m1 EXCEPT !._hdr = None, !._gain = 1,
                                        !._integration_time = 402]
                       m3 == _update_range(m2, 16, 13)
                       m4 == [m3 EXCEPT !.last_vnir = None, !.last_ir = None]
                   IN  /\ Commit(m4)
                       /\ pc' = "idle"
                       /\ ret' = [kind |-> "none"]
  /\ NoHistory
  /\ UNCHANGED callers

\* active(value), the setter.
SetActive ==
  /\ pc = "idle"
  /\ \E value \in BOOLEAN :
       Return(active(Self, value), "set_active", <<value>>, [kind |-> "none"])

\* gain(value), the setter.
SetGain ==
  /\ pc = "idle"
  /\ \E value \in GainArgs :
       Return(gain(Self, value), "set_gain", <<value>>, [kind |-> "none"])

\* integration_time(value), the setter.
SetIntegrationTime ==
  /\ pc = "idle"
  /\ \E value \in IntegrationTimeArgs :
       Return(integration_time(Self, value), "set_integration_time", <<value>>,
              [kind |-> "none"])

\* active(), gain(), integration_time(), sensor_id(): the getters.
Get ==
  /\ pc = "idle"
  /\ \/ Return(Self, "get_active", <<>>, [kind |-> "bool", value |-> _active])
     \/ Return(Self, "get_gain", <<>>, [kind |-> "int", value |-> _gain])
     \/ Return(Self, "get_integration_time", <<>>,
               [kind |-> "int", value |-> _integration_time])
     \/ Return(_register8_read(Self, _REGISTER_ID), "sensor_id", <<>>,
               [kind |-> "pair", value |-> sensor_id(Self)])

\* What read returns for the channels it ends with.
ReadResult(m, raw, vnir, ir) ==
  IF raw THEN [kind |-> "pair", value |-> <<vnir, ir>>]
  ELSE Lux(m._gain, m._integration_time, vnir, ir)

\* autogain with the two corrections exchanged.
NewGain_swapped(m, vnir) ==
  IF vnir < _INTEGRATION_TIME[m._integration_time][4] THEN 1
  ELSE IF vnir > _INTEGRATION_TIME[m._integration_time][5] THEN 16
  ELSE m._gain

\* The gain autogain asks for (lines 246-250).
NewGain(m, vnir) ==
  IF vnir < _INTEGRATION_TIME[m._integration_time][4] THEN 16
  ELSE IF vnir > _INTEGRATION_TIME[m._integration_time][5] THEN 1
  ELSE m._gain

\* read(autogain, hdr=False, raw)
Read ==
  /\ pc = "idle"
  /\ \E autogain \in BOOLEAN, raw \in BOOLEAN, r1 \in Readings :
       LET m0 == [Self EXCEPT !._hdr = None]
           m1 == _read(m0, r1[1], r1[2])
           args == <<autogain, raw>>
       IN  IF ~autogain
           THEN Return(m1, "read", args, ReadResult(m1, raw, r1[1], r1[2]))
           ELSE IF m1._integration_time = 0
           THEN Return([m1 EXCEPT !.exc = "ValueError"], "read", args, [kind |-> "none"])
           ELSE IF NewGain(m1, r1[1]) # m1._gain
           THEN \E r2 \in Readings :
                  LET m2 == gain(m1, NewGain(m1, r1[1]))
                      m3 == _read(m2, r2[1], r2[2])
                  IN  Return(m3, "read", args, ReadResult(m3, raw, r2[1], r2[2]))
           ELSE Return(m1, "read", args, ReadResult(m1, raw, r1[1], r1[2]))

\* read(hdr=True) that clears the HDR state on entry.
ReadHDRBegin_resets ==
  /\ pc = "idle"
  /\ \E s \in 0..Len(Scenes) :
       /\ scene' = s
       /\ pc' = "hdr"
       /\ call' = [op |-> "read_hdr", args |-> <<>>]
       /\ ret' = [kind |-> "pending"]
       /\ log' = <<>>
       /\ hdr_start' = None
       /\ reads' = 0
       /\ moves' = {}
       /\ in0' = TRUE
       /\ tick' = FALSE
       /\ _hdr' = None
       /\ UNCHANGED <<device, _active, _gain, _integration_time, last_vnir, last_ir, callers>>

\* read(hdr=True) is entered; in a constant scene every raw read at a tier
\* returns the scene's pair for that tier (s = 0: the reads are arbitrary).
ReadHDRBegin ==
  /\ pc = "idle"
  /\ \E s \in 0..Len(Scenes) :
       /\ scene' = s
       /\ pc' = "hdr"
       /\ call' = [op |-> "read_hdr", args |-> <<>>]
       /\ ret' = [kind |-> "pending"]
       /\ log' = <<>>
       /\ hdr_start' = _hdr
       /\ reads' = 0
       /\ moves' = {}
       /\ in0' = TRUE
       /\ tick' = FALSE
       /\ UNCHANGED <<device, driver, callers>>

\* The HDR branch with the zero-reading wait applied at tier 0 as well.
HdrBranch_thaw_any(m, vnir, ir) ==
  IF m._hdr = None THEN "enable"
  ELSE IF vnir = 0 /\ ir = 0 THEN "thaw"
  ELSE IF _HDR[m._hdr].max # None /\ Max(vnir, ir) > _HDR[m._hdr].max THEN "hot"
  ELSE IF _HDR[m._hdr].min # None /\ vnir < _HDR[m._hdr].min THEN "cold"
  ELSE "right"

\* The HDR branch without the zero-reading wait.
HdrBranch_no_thaw(m, vnir, ir) ==
  IF m._hdr = None THEN "enable"
  ELSE IF _HDR[m._hdr].max # None /\ Max(vnir, ir) > _HDR[m._hdr].max THEN "hot"
  ELSE IF _HDR[m._hdr].min # None /\ vnir < _HDR[m._hdr].min THEN "cold"
  ELSE "right"

\* The branch the HDR loop takes on a raw read (lines 217-231).
HdrBranch(m, vnir, ir) ==
  IF m._hdr = None THEN "enable"
  ELSE IF vnir = 0 /\ ir = 0 /\ m._hdr # 0 THEN "thaw"
  ELSE IF _HDR[m._hdr].max # None /\ Max(vnir, ir) > _HDR[m._hdr].max THEN "hot"
  ELSE IF _HDR[m._hdr].min # None /\ vnir < _HDR[m._hdr].min THEN "cold"
  ELSE "right"

\* One pass of the while loop of read(hdr=True) (lines 216-236).
ReadHDRStep ==
  /\ pc = "hdr"
  /\ \E r \in (IF scene = 0 \/ _hdr = None THEN Readings ELSE {Scenes[scene][_hdr]}) :
       LET vnir == r[1]
           ir == r[2]
           m1 == _read(Self, vnir, ir)
           branch == HdrBranch(m1, vnir, ir)
           m2 == CASE branch = "enable" -> [m1 EXCEPT !._hdr = 0]
                   [] branch = "thaw" -> sleep(m1, 1000)
                   [] branch = "hot" -> [m1 EXCEPT !._hdr = @ + 1]
                   [] branch = "cold" -> [m1 EXCEPT !._hdr = @ - 1]
                   [] branch = "right" -> [m1 EXCEPT !.last_vnir = vnir, !.last_ir = ir]
       IN  /\ reads' = Min(reads + 1, MaxReads)
           /\ in0' = (in0 /\ Max(vnir, ir) <= _HDR[0].max)
           /\ tick' = ~tick
           /\ moves' = IF branch \in {"hot", "cold"}
                       THEN moves \cup {m2._hdr - m1._hdr}
                       ELSE moves
           /\ UNCHANGED <<scene, hdr_start, call, callers>>
           /\ IF branch = "right"
              THEN /\ Commit(m2)
                   /\ pc' = "idle"
                   /\ ret' = Lux(m2._gain, m2._integration_time, vnir, ir)
              ELSE /\ Commit(_update_range(m2, _HDR[m2._hdr].gain, _HDR[m2._hdr].time))
                   /\ pc' = "hdr"
                   /\ ret' = ret

\* threshold(...) with cycles, min_value, max_value drawn from the sets.
Threshold(Cycles, MinValues, MaxValues) ==
  /\ pc = "idle"
  /\ \E cycles \in Cycles, min_value \in MinValues, max_value \in MaxValues :
       IF min_value = None /\ max_value = None /\ cycles = None
       THEN Return(threshold_reads(Self), "threshold", <<>>,
                   [kind |-> "triple", value |-> threshold_get(Self)])
       ELSE Return(threshold(Self, cycles, min_value, max_value), "threshold",
                   <<cycles, min_value, max_value>>, [kind |-> "none"])

\* interrupt(value)
Interrupt ==
  /\ pc = "idle"
  /\ \E value \in {"None", "truthy", "falsy"} :
       Return(interrupt_call(Self, value), "interrupt", <<value>>, [kind |-> "none"])

Next ==
  \/ Construct
  \/ SetActive
  \/ SetGain
  \/ SetIntegrationTime
  \/ Get
  \/ Read
  \/ ReadHDRBegin
  \/ ReadHDRStep
  \/ Threshold(CyclesArgs, MinValueArgs, MaxValueArgs)
  \/ Interrupt

Spec == Init /\ [][Next]_vars

(***************************************************************************)
(* The lux conversion on its own: a constructed driver at one of its       *)
(* operating points is handed a raw pair.                                  *)
(***************************************************************************)
LuxRaw ==
  { 0, 1, 127, 300, 450, 500, 700, 1000, 1024, 4900, 4901,
    37000, 37001, 65000, 65001, 65535 }

LuxInit ==
  /\ pc = "lux"
  /\ _gain \in {1, 16}
  /\ _integration_time \in {0, 13, 101, 402}
  /\ timing = GainBits(_gain) + _INTEGRATION_TIME[_integration_time][1]
  /\ \E vnir \in LuxRaw, ir \in LuxRaw : call = [op |-> "_lux", args |-> <<vnir, ir>>]
  /\ control = _CONTROL_POWERON
  /\ _active = TRUE
  /\ threshold_min = 0
  /\ threshold_max = 0
  /\ interrupt = _INTERRUPT_NONE
  /\ id = 80
  /\ _hdr = None
  /\ last_vnir = None
  /\ last_ir = None
  /\ log = <<>>
  /\ ret = [kind |-> "pending"]
  /\ scene = 0
  /\ hdr_start = None
  /\ reads = 0
  /\ moves = {}
  /\ in0 = TRUE
  /\ tick = FALSE
  /\ thread = NoThreads
  /\ lock = 0

\* _lux(channels)
LuxCall ==
  /\ pc = "lux"
  /\ pc' = "idle"
  /\ ret' = _lux(_gain, _integration_time, call.args[1], call.args[2])
  /\ UNCHANGED <<device, driver, call, log, history, callers>>

LuxNext == LuxCall

LuxSpec == LuxInit /\ [][LuxNext]_vars

TypeOK ==
  /\ pc \in {"new", "idle", "hdr", "failed", "lux", "threads"}
  /\ _hdr \in {None} \cup (0..5)
  /\ pc \in {"idle", "hdr"} => _gain \in {1, 16} /\ _integration_time \in {0, 13, 101, 402}

(***************************************************************************)
(* Reading the log of a step                                               *)
(***************************************************************************)
Range(l) == {l[i] : i \in 1..Len(l)}

\* Positions of the operations of a kind on a register.
Ops(l, kind, register) ==
  {i \in 1..Len(l) : l[i][1] = kind /\ l[i][2] = register}

SetMin(S) == CHOOSE i \in S : \A j \in S : i <= j
SetMax(S) == CHOOSE i \in S : \A j \in S : i >= j

\* Raw reads of a step: the positions of its channel-0 reads.
RawReads(l) == Ops(l, "r16", _REGISTER_CHANNEL0)

TimingEncodes(g, t) ==
  /\ (And10(timing) = 16) <=> (g = 16)
  /\ And03(timing) = (CASE t = 13 -> 0 [] t = 101 -> 1 [] t = 402 -> 2 [] t = 0 -> 3)

(***************************************************************************)
(* Claims                                                                  *)
(***************************************************************************)

\* C1: after construction and after every completed step, the gain and the
\* integration time the driver reports are the ones most recently applied
\* (by __init__, a setter, autogain or the HDR tier), and the timing register
\* encodes exactly them: bit 0x10 set iff gain = 16, low two bits the code
\* of the integration time, whatever the register held before construction.
OperatingPointAgreement ==
  pc \in {"idle", "hdr"} =>
    /\ _gain \in {1, 16}
    /\ _integration_time \in {0, 13, 101, 402}
    /\ TimingEncodes(_gain, _integration_time)
    /\ call.op = "__init__" => _gain = 16 /\ _integration_time = 13
    /\ (call.op = "set_gain" /\ call.args[1] \in {1, 16}) => _gain = call.args[1]
    /\ (call.op = "set_integration_time" /\ call.args[1] \in {0, 13, 101, 402})
         => _integration_time = call.args[1]
    /\ (call.op = "read_hdr" /\ pc = "hdr" /\ reads > 0)
         => /\ _hdr \in 0..5
            /\ _gain = _HDR[_hdr].gain
            /\ _integration_time = _HDR[_hdr].time
    /\ (call.op = "read" /\ call.args[1] /\ _integration_time # 0)
         => LET first == log[SetMin(RawReads(log))][3]
            IN  /\ first < _INTEGRATION_TIME[_integration_time][4] => _gain = 16
                /\ (first >= _INTEGRATION_TIME[_integration_time][4]
                    /\ first > _INTEGRATION_TIME[_integration_time][5]) => _gain = 1

\* C1 witness: a setter sequence has left gain 1 with manual integration
\* time, and the register, which held something else at start, reads 0x03.
OperatingPointAgreementWitness ==
  /\ pc = "idle"
  /\ call.op = "set_integration_time"
  /\ _gain = 1
  /\ _integration_time = 0
  /\ timing = 3
  /\ Ops(log, "w8", _REGISTER_TIMING) # {}

\* C2: every step of read (plain, auto-gain, HDR), set_gain,
\* set_integration_time and threshold leaves the driver's active state as it
\* found it, and the control register holds the matching command.
PowerStateRestored ==
  [][ ( /\ pc \in {"idle", "hdr"}
        /\ call'.op \in {"read", "read_hdr", "set_gain", "set_integration_time",
                         "threshold"} )
      => /\ _active' = _active
         /\ control' = (IF _active' THEN _CONTROL_POWERON ELSE _CONTROL_POWEROFF)
         /\ Ops(log', "w8", _REGISTER_CONTROL) # {}
              => log'[SetMax(Ops(log', "w8", _REGISTER_CONTROL))][3] = control'
    ]_vars

\* C2 witness: a read on an inactive driver powered the device on and off
\* again.
PowerStateRestoredWitness ==
  /\ pc = "idle"
  /\ call.op = "read"
  /\ ~_active
  /\ control = _CONTROL_POWEROFF
  /\ <<"w8", _REGISTER_CONTROL, _CONTROL_POWERON>> \in Range(log)

InvalidArgumentRejected ==
  [][ ( /\ pc = "idle"
        /\ \/ call'.op = "set_gain" /\ call'.args[1] \notin {1, 16}
           \/ call'.op = "set_integration_time"
              /\ call'.args[1] \notin {13, 101, 402, 0} )
      => /\ ret'.kind = "ValueError"
         /\ log' = <<>>
         /\ UNCHANGED <<device, driver>>
    ]_vars

\* C4 witness: set_gain(4) raised.
InvalidArgumentRejectedWitness ==
  /\ pc = "idle"
  /\ call.op = "set_gain"
  /\ call.args = <<4>>
  /\ ret.kind = "ValueError"
  /\ log = <<>>

\* C5: a setter called with the current value does nothing on the bus, does
\* not sleep and changes no state; set_active with the other value performs
\* exactly one write, of the power command, to the control register.
IdempotentNoOps ==
  [][ pc = "idle" =>
        /\ ( \/ call'.op = "set_gain" /\ call'.args[1] = _gain
             \/ call'.op = "set_integration_time" /\ call'.args[1] = _integration_time
             \/ call'.op = "set_active" /\ call'.args[1] = _active )
           => (log' = <<>> /\ UNCHANGED <<device, driver>>)
        /\ (call'.op = "set_active" /\ call'.args[1] # _active)
           => log' = << <<"w8", _REGISTER_CONTROL,
                          IF call'.args[1] THEN _CONTROL_POWERON ELSE _CONTROL_POWEROFF>> >>
    ]_vars

\* C5 witness: set_gain(16) returned without any bus operation at gain 16.
IdempotentNoOpsWitness ==
  /\ pc = "idle"
  /\ call.op = "set_gain"
  /\ call.args = <<16>>
  /\ _gain = 16
  /\ log = <<>>
  /\ ret.kind = "none"

\* C6: an HDR read entered at tier 0 whose raw reads all stay within tier 0
\* (max(vnir, ir) <= 62258) returns after one raw read, one read of each
\* channel register, without touching the timing register.
HdrTier0OneRead ==
  (call.op = "read_hdr" /\ hdr_start = 0 /\ in0) =>
    /\ pc = "hdr" => reads = 0
    /\ pc = "idle" =>
         /\ reads = 1
         /\ Cardinality(Ops(log, "r16", _REGISTER_CHANNEL0)) = 1
         /\ Cardinality(Ops(log, "r16", _REGISTER_CHANNEL1)) = 1
         /\ Ops(log, "w8", _REGISTER_TIMING) = {}
         /\ _hdr = 0

\* C6 witness: such a read returned, having accepted a dark (0, 0) reading.
HdrTier0OneReadWitness ==
  /\ pc = "idle"
  /\ call.op = "read_hdr"
  /\ hdr_start = 0
  /\ in0
  /\ reads = 1
  /\ last_vnir = 0
  /\ last_ir = 0

\* C7 as stated: in an HDR read of a constant scene whose counts do not grow
\* with the tier index, every tier change is by exactly 1 and the index never
\* moves in both directions.
HdrNoOscillation ==
  (call.op = "read_hdr" /\ scene # 0 /\ NonIncreasing(Scenes[scene])) =>
    /\ moves \subseteq {-1, 1}
    /\ ~({-1, 1} \subseteq moves)

\* The reference conversion, in integers: the triple is the first whose
\* ceiling k has (ir * 1024 / vnir + 1) / 2 <= k, that is
\* ir * 1024 + vnir <= 2 * k * vnir (vnir = 0: ratio 1/2, the first triple).
RECURSIVE RefCoefficients(_, _, _)
RefCoefficients(vnir, ir, i) ==
  IF i > Len(_LUX_SCALE) THEN <<0, 0>>
  ELSE IF vnir = 0 \/ ir * 1024 + vnir <= 2 * _LUX_SCALE[i][1] * vnir
       THEN <<_LUX_SCALE[i][2], _LUX_SCALE[i][3]>>
       ELSE RefCoefficients(vnir, ir, i + 1)

\* lux = (max(0, (vnir * B - ir * M) * 16 * divisor / (gain * 1024)) + 8192) / 16384
RefLux(g, t, vnir, ir) ==
  LET bm == RefCoefficients(vnir, ir, 1)
      diff == vnir * bm[1] - ir * bm[2]
  IN  RDiv(RAdd(RDiv(RMul(R(Max(0, diff)), R(16 * _INTEGRATION_TIME[t][6])),
                     R(g * 1024)),
                R(8192)),
           R(16384))

\* C8 as stated: a channel at or above the clip value gives "no reading",
\* both channels below it a numeric lux.
SaturationAtOrAboveClip ==
  (pc = "idle" /\ call.op = "_lux" /\ _integration_time # 0) =>
    LET clip == _INTEGRATION_TIME[_integration_time][3]
        vnir == call.args[1]
        ir == call.args[2]
    IN  /\ (vnir >= clip \/ ir >= clip) => ret.kind = "None"
        /\ (vnir < clip /\ ir < clip) => ret.kind = "lux"

\* C8 amended: for each preset and gain, a channel strictly above the clip
\* value (4900 / 37000 / 65000) gives "no reading" and never a lux; both
\* channels at or below it give a numeric lux.
SaturationAboveClip ==
  (pc = "idle" /\ call.op = "_lux" /\ _integration_time # 0) =>
    LET clip == _INTEGRATION_TIME[_integration_time][3]
        vnir == call.args[1]
        ir == call.args[2]
    IN  /\ clip = (CASE _integration_time = 13 -> 4900
                     [] _integration_time = 101 -> 37000
                     [] _integration_time = 402 -> 65000)
        /\ (vnir > clip \/ ir > clip) => ret.kind = "None"
        /\ (vnir <= clip /\ ir <= clip) => ret.kind = "lux"

\* C8 witness: a channel exactly at the clip value was converted to a lux.
SaturationAboveClipWitness ==
  /\ pc = "idle"
  /\ call.op = "_lux"
  /\ _integration_time = 13
  /\ call.args = <<4900, 1000>>
  /\ ret.kind = "lux"

\* C9: for every input the code does not clip, _lux returns a lux equal to
\* the reference formula and never negative (vnir = 0 included); gain 1,
\* 402 ms, (1000, 500) gives 1816192 / 16384 with the triple of ceiling 0x138.
LuxMatchesReference ==
  ( /\ pc = "idle"
    /\ call.op = "_lux"
    /\ _integration_time # 0
    /\ call.args[1] <= _INTEGRATION_TIME[_integration_time][3]
    /\ call.args[2] <= _INTEGRATION_TIME[_integration_time][3] )
  => /\ ret.kind = "lux"
     /\ REq(ret.value, RefLux(_gain, _integration_time, call.args[1], call.args[2]))
     /\ RLe(R(0), ret.value)
     /\ (_gain = 1 /\ _integration_time = 402 /\ call.args = <<1000, 500>>)
          => /\ REq(ret.value, RDiv(R(1816192), R(16384)))
             /\ LuxCoefficients(
                  LuxRatio(LuxChannel(1000, LuxScale(1, 402)),
                           LuxChannel(500, LuxScale(1, 402))), 1) = <<367, 508>>

\* C9 witness: the scenario gain 1, 402 ms, (1000, 500) was converted.
LuxMatchesReferenceWitness ==
  /\ pc = "idle"
  /\ call.op = "_lux"
  /\ _gain = 1
  /\ _integration_time = 402
  /\ call.args = <<1000, 500>>
  /\ ret.kind = "lux"

\* C10: read(autogain=True) at a preset integration time reads once; the
\* gain becomes 16 if that vnir is below the profile's low threshold, 1 if
\* above the high one, else stays; it reads a second time iff the gain
\* changed, never a third; the timing register is written at most once; the
\* value returned is that of the last read.
AutoGainOneCorrection ==
  [][ ( /\ pc = "idle"
        /\ call'.op = "read"
        /\ call'.args[1]
        /\ _integration_time # 0 )
      => LET l == log'
             raw == RawReads(l)
             first == l[SetMin(raw)][3]
             low == CASE _integration_time = 13 -> 100
                      [] _integration_time = 101 -> 200
                      [] _integration_time = 402 -> 500
             high == CASE _integration_time = 13 -> 4850
                       [] _integration_time = 101 -> 36000
                       [] _integration_time = 402 -> 63000
             want == IF first < low THEN 16 ELSE IF first > high THEN 1 ELSE _gain
             vnir == l[SetMax(raw)][3]
             ir == l[SetMax(Ops(l, "r16", _REGISTER_CHANNEL1))][3]
         IN  /\ _gain' = want
             /\ _integration_time' = _integration_time
             /\ Cardinality(raw) = (IF want # _gain THEN 2 ELSE 1)
             /\ Cardinality(Ops(l, "r16", _REGISTER_CHANNEL1)) = Cardinality(raw)
             /\ Cardinality(Ops(l, "w8", _REGISTER_TIMING)) = (IF want # _gain THEN 1 ELSE 0)
             /\ ret' = IF call'.args[2]
                       THEN [kind |-> "pair", value |-> <<vnir, ir>>]
                       ELSE Lux(want, _integration_time, vnir, ir)
    ]_vars

\* C10 witness: an auto-gain read lowered the gain to 1 and read again.
AutoGainOneCorrectionWitness ==
  /\ pc = "idle"
  /\ call.op = "read"
  /\ call.args[1]
  /\ _gain = 1
  /\ Cardinality(RawReads(log)) = 2
  /\ Cardinality(Ops(log, "w8", _REGISTER_TIMING)) = 1

(***************************************************************************)
(* The threshold registers on their own: a constructed driver, active or   *)
(* not, is given threshold calls with a wider choice of arguments.         *)
(***************************************************************************)
\* cycles: omitted, disabled, below 0, 0, inside 0..15, above 15.
ThresholdCycles == {None, -1, -5, 0, 3, 20}

\* min_value / max_value: omitted or a 16-bit count.
ThresholdValues == {None, 0, 65535}

ThresholdCall == Threshold(ThresholdCycles, ThresholdValues, ThresholdValues)

ThresholdNext ==
  \/ Construct
  \/ SetActive
  \/ ThresholdCall

ThresholdSpec == Init /\ [][ThresholdNext]_vars

\* C11: after threshold(cycles=c, ...) completes, what threshold() reads back
\* is cycles = -1 if c = -1 and c clamped into 0..15 for any other c given,
\* whatever the thresholds are; a min or max that was given reads back
\* unchanged, one that was omitted keeps its register value; and threshold()
\* with no argument returns exactly that triple without changing a register.
ThresholdRoundTrip ==
  [][ /\ ( pc = "idle" /\ call'.op = "threshold" /\ Len(call'.args) = 3 )
         => LET c == call'.args[1]
                got == threshold_get(Self)'
            IN  /\ ret'.kind = "none"
                /\ c = -1 => got[1] = -1
                /\ (c # -1 /\ c # None) => got[1] = Min(15, Max(0, c))
                /\ c = None => got[1] = threshold_get(Self)[1]
                /\ got[2] = (IF call'.args[2] # None THEN call'.args[2] ELSE threshold_min)
                /\ got[3] = (IF call'.args[3] # None THEN call'.args[3] ELSE threshold_max)
      /\ ( pc = "idle" /\ call'.op = "threshold" /\ Len(call'.args) = 0 )
         => /\ ret' = [kind |-> "triple", value |-> threshold_get(Self)]
            /\ UNCHANGED <<device, driver>>
    ]_vars

\* C11 witness: threshold(cycles=20) with the thresholds omitted has stored
\* the persistence 15 beside a min threshold set by an earlier call.
ThresholdRoundTripWitness ==
  /\ pc = "idle"
  /\ call.op = "threshold"
  /\ call.args = <<20, None, None>>
  /\ threshold_get(Self) = <<15, 65535, 0>>

\* C12: construction on a device whose part number (ID byte >> 4) has low
\* bit 0 raises the identity error (RuntimeError) after reading the ID
\* register and nothing else: no register is written, the device is not
\* powered on; with low bit 1 the identity check passes, and construction
\* completes for either valid powermode.
IdentityCheckedBeforeAnyWrite ==
  [][ pc = "new" =>
        /\ call'.op = "__init__"
        /\ (id \div 16) % 2 = 0
             => /\ pc' = "failed"
                /\ ret'.kind = "RuntimeError"
                /\ log' = << <<"r8", _REGISTER_ID, id>> >>
                /\ UNCHANGED device
        /\ (id \div 16) % 2 = 1
             => /\ ret'.kind # "RuntimeError"
                /\ log'[1] = <<"r8", _REGISTER_ID, id>>
                /\ call'.args[1] \in {TSL2561_LOWPOWER, TSL2561_STANDARD}
                     => /\ pc' = "idle"
                        /\ Ops(log', "w8", _REGISTER_TIMING) # {}
    ]_vars

\* C12 witness: construction on a TSL2560 (ID byte 0x40) has failed, the
\* device untouched.
IdentityCheckedBeforeAnyWriteWitness ==
  /\ pc = "failed"
  /\ id = 64
  /\ ret.kind = "RuntimeError"
  /\ control = _CONTROL_POWEROFF
  /\ log = << <<"r8", _REGISTER_ID, 64>> >>

\* C13 as stated: interrupt(value) with a falsy value other than None
\* completes without error, having issued exactly one bus write (the clear
\* command), and leaves the power state, gain, integration time and HDR
\* state as they were.
ClearInterruptCompletes ==
  (pc = "idle" /\ call.op = "interrupt" /\ call.args[1] = "falsy")
    => /\ ret.kind = "none"
       /\ Len(log) = 1
       /\ log[1][1] \in {"w8", "w16"}

\* The raw pair a step read from the channel registers (its first raw read).
RawVnir(l) == l[SetMin(Ops(l, "r16", _REGISTER_CHANNEL0))][3]
RawIr(l) == l[SetMin(Ops(l, "r16", _REGISTER_CHANNEL1))][3]

\* C14 as stated: in an HDR session at tier t every raw read is taken at
\* tier t's gain and integration time; a read that is not (0, 0) moves the
\* tier up when t has an upper bound and max(vnir, ir) exceeds it, else down
\* when t has a lower bound and vnir is below it, else is accepted, cached
\* and converted to lux; and a tier change applies the new tier's gain and
\* integration time before the next raw read.
HdrTransitionRule ==
  [][ (pc = "hdr" /\ _hdr # None)
      => LET t == _hdr
             vnir == RawVnir(log')
             ir == RawIr(log')
         IN  /\ _gain = _HDR[t].gain
             /\ _integration_time = _HDR[t].time
             /\ ~(vnir = 0 /\ ir = 0)
                  => IF _HDR[t].max # None /\ Max(vnir, ir) > _HDR[t].max
                     THEN _hdr' = t + 1 /\ pc' = "hdr"
                     ELSE IF _HDR[t].min # None /\ vnir < _HDR[t].min
                     THEN _hdr' = t - 1 /\ pc' = "hdr"
                     ELSE /\ pc' = "idle"
                          /\ _hdr' = t
                          /\ last_vnir' = vnir
                          /\ last_ir' = ir
                          /\ ret' = Lux(_HDR[t].gain, _HDR[t].time, vnir, ir)
             /\ _hdr' # t
                  => /\ _gain' = _HDR[_hdr'].gain
                     /\ _integration_time' = _HDR[_hdr'].time
    ]_vars

\* C15: whatever the channel registers return and however HDR reads,
\* non-HDR reads and setter calls interleave, the HDR tier index is either
\* unset or one of the tiers 0..5, and inside the HDR loop after the first
\* pass it is a tier; the search steps neither past tier 5 nor below tier 0.
HdrTierInRange ==
  /\ _hdr \in {None} \cup (0..5)
  /\ (pc = "hdr" /\ reads > 0) => _hdr \in 0..5
  /\ (pc = "idle" /\ call.op = "read_hdr") => _hdr \in 0..5

\* C15 witness: at tier 5 a full-scale reading, above every tier's upper
\* bound, was accepted; the index stayed 5.
HdrTierInRangeWitness ==
  /\ pc = "idle"
  /\ call.op = "read_hdr"
  /\ _hdr = 5
  /\ last_vnir = 65535

\* C16 as stated: in an HDR read with a tier set, whichever of 0..5, a raw
\* read of (0, 0) is not accepted and does not change the tier: the loop
\* holds the tier, waits one second and reads again.
ZeroReadingHeldAtAnyTier ==
  [][ ( /\ pc = "hdr"
        /\ _hdr # None
        /\ RawVnir(log') = 0
        /\ RawIr(log') = 0 )
      => /\ pc' = "hdr"
         /\ _hdr' = _hdr
         /\ <<"sleep", 1000>> \in Range(log')
    ]_vars

\* C16 amended: a raw read of (0, 0) at a tier other than 0 is not accepted
\* and does not change the tier: the loop waits one second and reads again
\* (every pass begins with a raw read); at tier 0 a raw read of (0, 0) is
\* accepted as the terminal reading.
ZeroReadingHeldAboveTier0 ==
  [][ ( /\ pc = "hdr"
        /\ _hdr # None
        /\ RawVnir(log') = 0
        /\ RawIr(log') = 0 )
      => IF _hdr # 0
         THEN /\ pc' = "hdr"
              /\ _hdr' = _hdr
              /\ <<"sleep", 1000>> \in Range(log')
              /\ UNCHANGED <<last_vnir, last_ir, ret>>
         ELSE /\ pc' = "idle"
              /\ _hdr' = 0
              /\ last_vnir' = 0
              /\ last_ir' = 0
              /\ <<"sleep", 1000>> \notin Range(log')
    ]_vars

\* C16 witness: at tier 3 a pass read (0, 0), slept a second and stayed in
\* the loop at tier 3.
ZeroReadingHeldAboveTier0Witness ==
  /\ pc = "hdr"
  /\ _hdr = 3
  /\ reads > 0
  /\ <<"r16", _REGISTER_CHANNEL0, 0>> \in Range(log)
  /\ <<"r16", _REGISTER_CHANNEL1, 0>> \in Range(log)
  /\ <<"sleep", 1000>> \in Range(log)

(***************************************************************************)
(* HDR reads on their own, one after another on a constructed driver.  A   *)
(* call that is inside the HDR loop keeps executing it: the loop's pass is *)
(* taken whenever it stays enabled.                                        *)
(***************************************************************************)
HdrNext ==
  \/ Construct
  \/ ReadHDRBegin
  \/ ReadHDRStep

\* A pass of the HDR loop: under HdrNext the steps that flip the pass parity
\* inside the loop are exactly the ReadHDRStep steps, and one is possible in
\* every state inside the loop.
HdrPass == pc = "hdr" /\ tick' = ~tick

HdrFairSpec == Init /\ [][HdrNext]_vars /\ WF_tick(HdrPass)

\* C17 as stated: a read(hdr=True) call made in a constant scene whose
\* counts do not grow as sensitivity falls (a dark scene included)
\* eventually returns, whatever tier an earlier HDR read left set.
HdrReadReturns ==
  (pc = "hdr" /\ scene # 0 /\ NonIncreasing(Scenes[scene])) ~> (pc = "idle")

\* Milliseconds slept strictly between positions p and i of a log.
RECURSIVE SleptBetween(_, _, _)
SleptBetween(l, p, i) ==
  IF p + 1 >= i THEN 0
  ELSE (IF l[p + 1][1] = "sleep" THEN l[p + 1][2] ELSE 0) + SleptBetween(l, p + 1, i)

\* The control register as the device holds it just before position i of a
\* log that started with the register at c0.
ControlAt(l, i, c0) ==
  LET W == {p \in Ops(l, "w8", _REGISTER_CONTROL) : p < i}
  IN  IF W = {} THEN c0 ELSE l[SetMax(W)][3]

\* C18 as stated: every raw read is taken with the device powered on for at
\* least the settle wait of the integration time in force since its most
\* recent power-on (within a call: within a step, and from one pass of the
\* HDR loop to the next) and since the most recent write of the timing
\* register's integration-time bits; and the wait that set_integration_time
\* makes after changing the integration time passes with the device
\* powered on.
SettledBeforeRead ==
  [][ LET l == IF pc = "hdr" THEN log \o log' ELSE log'
          first == IF pc = "hdr" THEN Len(log) ELSE 0
          wait == _INTEGRATION_TIME[_integration_time][2]
      IN  /\ \A i \in RawReads(l) : \A p \in Ops(l, "w8", _REGISTER_CONTROL) :
               (i > first /\ p < i /\ l[p][3] = _CONTROL_POWERON
                /\ \A q \in Ops(l, "w8", _REGISTER_CONTROL) : q <= p \/ q > i)
                 => SleptBetween(l, p, i) >= wait
          /\ (call'.op = "set_integration_time" /\ pc = "idle")
               => \A k \in 1..Len(log') :
                    log'[k][1] = "sleep" => ControlAt(log', k, control) = _CONTROL_POWERON
    ]_vars

\* The timing register as the device holds it just before position i of a
\* log that started with the register at t0.
TimingAt(l, i, t0) ==
  LET W == {p \in Ops(l, "w8", _REGISTER_TIMING) : p < i}
  IN  IF W = {} THEN t0 ELSE l[SetMax(W)][3]

\* C19: in every step (construction, set_gain, auto-gain read, HDR tier
\* change, any other call), a write to the timing register that changes the
\* gain bit is made with the control register at power-off and keeps the
\* integration-time bits; when the driver was active before the change
\* (in __init__: when it was constructed active), power-on is written again
\* only after the gain write; and the step leaves the device powered as the
\* driver was active.
GainChangedPoweredDown ==
  [][ LET was_active == IF pc = "new" THEN call'.args[1] = TSL2561_STANDARD ELSE _active
      IN  \A k \in Ops(log', "w8", _REGISTER_TIMING) :
            And10(log'[k][3]) # And10(TimingAt(log', k, timing))
              => /\ ControlAt(log', k, control) = _CONTROL_POWEROFF
                 /\ And03(log'[k][3]) = And03(TimingAt(log', k, timing))
                 /\ was_active
                      => \E q \in Ops(log', "w8", _REGISTER_CONTROL) :
                           q > k /\ log'[q][3] = _CONTROL_POWERON
                 /\ (control' = _CONTROL_POWERON) = was_active
    ]_vars

\* C19 witness: set_gain on an active driver powered the device off, wrote
\* the timing register with the other gain bit, and powered it on again.
GainChangedPoweredDownWitness ==
  /\ pc = "idle"
  /\ call.op = "set_gain"
  /\ _active
  /\ Len(log) = 5
  /\ log[1] = <<"w8", _REGISTER_CONTROL, _CONTROL_POWEROFF>>
  /\ log[2][1] = "r8"
  /\ log[3][1] = "w8"
  /\ log[3][2] = _REGISTER_TIMING
  /\ And10(log[3][3]) # And10(log[2][3])
  /\ log[5] = <<"w8", _REGISTER_CONTROL, _CONTROL_POWERON>>

(***************************************************************************)
(* Two callers on one driver instance: caller 1 runs gain(value), caller 2 *)
(* runs integration_time(value), each advancing one bus operation (or one  *)
(* sleep) at a time.  With a lock (lock >= 0) a caller starts only when    *)
(* the other is not inside its call; without one (lock = -1) the steps     *)
(* interleave freely.                                                      *)
(***************************************************************************)
\* integration_time(value) by a caller that rewrites the timing register
\* without the gain bit it read.
integration_time_thread_blind(m, me) ==
  CASE me.pc = "start" ->
         << m, [me EXCEPT !.was_active = m._active,
                          !.pc = IF me.arg # m._integration_time THEN "rd" ELSE "restore"] >>
    [] me.pc = "rd" ->
         << _register8_read(m, _REGISTER_TIMING),
            [me EXCEPT !.value = And10(RegValue(m, _REGISTER_TIMING)), !.pc = "wr"] >>
    [] me.pc = "wr" ->
         << _register8(m, _REGISTER_TIMING, _INTEGRATION_TIME[me.arg][1]),
            [me EXCEPT !.pc = "log"] >>
    [] me.pc = "log" ->
         << _register8_read(m, _REGISTER_TIMING), [me EXCEPT !.pc = "sleep"] >>
    [] me.pc = "sleep" ->
         << [sleep(m, Max(_INTEGRATION_TIME[m._integration_time][2],
                          _INTEGRATION_TIME[me.arg][2]))
               EXCEPT !._integration_time = me.arg],
            [me EXCEPT !.pc = "restore"] >>
    [] me.pc = "restore" ->
         << active(m, me.was_active), [me EXCEPT !.pc = "done"] >>

\* gain(value) -> _update_range(gain=value), one step of the caller `me`
\* (lines 195-203, 211): the driver and device after it, and the caller.
gain_thread(m, me) ==
  CASE me.pc = "start" ->
         << m, [me EXCEPT !.was_active = m._active,
                          !.pc = IF me.arg # m._gain THEN "down" ELSE "restore"] >>
    [] me.pc = "down" ->
         << IF me.was_active THEN active(m, FALSE) ELSE m, [me EXCEPT !.pc = "rd"] >>
    [] me.pc = "rd" ->
         << _register8_read(m, _REGISTER_TIMING),
            [me EXCEPT !.value = And03(RegValue(m, _REGISTER_TIMING)), !.pc = "wr"] >>
    [] me.pc = "wr" ->
         << [_register8(m, _REGISTER_TIMING, me.value + GainBits(me.arg))
               EXCEPT !._gain = me.arg],
            [me EXCEPT !.pc = "log"] >>
    [] me.pc = "log" ->
         << _register8_read(m, _REGISTER_TIMING), [me EXCEPT !.pc = "restore"] >>
    [] me.pc = "restore" ->
         << active(m, me.was_active), [me EXCEPT !.pc = "done"] >>

\* integration_time(value) -> _update_range(integration_time=value), one
\* step of the caller `me` (lines 195, 204-211).
integration_time_thread(m, me) ==
  CASE me.pc = "start" ->
         << m, [me EXCEPT !.was_active = m._active,
                          !.pc = IF me.arg # m._integration_time THEN "rd" ELSE "restore"] >>
    [] me.pc = "rd" ->
         << _register8_read(m, _REGISTER_TIMING),
            [me EXCEPT !.value = And10(RegValue(m, _REGISTER_TIMING)), !.pc = "wr"] >>
    [] me.pc = "wr" ->
         << _register8(m, _REGISTER_TIMING, me.value + _INTEGRATION_TIME[me.arg][1]),
            [me EXCEPT !.pc = "log"] >>
    [] me.pc = "log" ->
         << _register8_read(m, _REGISTER_TIMING), [me EXCEPT !.pc = "sleep"] >>
    [] me.pc = "sleep" ->
         << [sleep(m, Max(_INTEGRATION_TIME[m._integration_time][2],
                          _INTEGRATION_TIME[me.arg][2]))
               EXCEPT !._integration_time = me.arg],
            [me EXCEPT !.pc = "restore"] >>
    [] me.pc = "restore" ->
         << active(m, me.was_active), [me EXCEPT !.pc = "done"] >>

\* A constructed driver at any operating point, active or not, and the two
\* callers about to make their calls, with or without a lock.
ThreadsInit ==
  /\ pc = "threads"
  /\ _gain \in {1, 16}
  /\ _integration_time \in {0, 13, 101, 402}
  /\ timing = GainBits(_gain) + _INTEGRATION_TIME[_integration_time][1]
  /\ _active \in BOOLEAN
  /\ control = (IF _active THEN _CONTROL_POWERON ELSE _CONTROL_POWEROFF)
  /\ \E g \in {1, 16}, t \in {0, 13, 101, 402} :
       thread = [i \in {1, 2} |->
                   [pc |-> "start", arg |-> IF i = 1 THEN g ELSE t,
                    was_active |-> FALSE, value |-> 0]]
  /\ lock \in {-1, 0}
  /\ threshold_min = 0
  /\ threshold_max = 0
  /\ interrupt = _INTERRUPT_NONE
  /\ id = 80
  /\ _hdr = None
  /\ last_vnir = None
  /\ last_ir = None
  /\ call = [op |-> "threads", args |-> <<>>]
  /\ log = <<>>
  /\ ret = [kind |-> "pending"]
  /\ scene = 0
  /\ hdr_start = None
  /\ reads = 0
  /\ moves = {}
  /\ in0 = TRUE
  /\ tick = FALSE

\* Caller i takes its next step; step is what the step does to the driver,
\* the device and the caller.
ThreadStep(i, step) ==
  /\ pc = "threads"
  /\ thread[i].pc # "done"
  /\ thread[i].pc = "start" => lock \in {-1, 0}
  /\ Commit(step[1])
  /\ thread' = [thread EXCEPT ![i] = step[2]]
  /\ lock' = IF lock = -1 THEN -1 ELSE IF step[2].pc = "done" THEN 0 ELSE i
  /\ UNCHANGED <<pc, call, ret, history>>

GainCaller == ThreadStep(1, gain_thread(Self, thread[1]))

IntegrationTimeCaller == ThreadStep(2, integration_time_thread(Self, thread[2]))

ThreadsNext ==
  \/ GainCaller
  \/ IntegrationTimeCaller

ThreadsSpec == ThreadsInit /\ [][ThreadsNext]_vars

\* Both callers' calls have returned.
BothDone == pc = "threads" /\ thread[1].pc = "done" /\ thread[2].pc = "done"

\* C20: when the two calls are serialized (the callers hold a lock around
\* them), after both have returned the timing register encodes the cached
\* gain and integration time, which are the values asked for, and the
\* control register holds the cached power state; without the lock a state
\* is reachable after both calls in which the timing register does not
\* encode the cached values (the witness).
SerializedCallsKeepOperatingPoint ==
  (BothDone /\ lock # -1)
    => /\ TimingEncodes(_gain, _integration_time)
       /\ _gain = thread[1].arg
       /\ _integration_time = thread[2].arg
       /\ control = (IF _active THEN _CONTROL_POWERON ELSE _CONTROL_POWEROFF)

\* C20 witness: without a lock both calls have returned and the timing
\* register does not encode the cached gain and integration time.
SerializedCallsKeepOperatingPointWitness ==
  /\ BothDone
  /\ lock = -1
  /\ ~TimingEncodes(_gain, _integration_time)

=============================================================================
